---- MODULE Spec2Model ----
(***************************************************************************)
(* Event-booking API: the Booking Service (src/lambda/booking_handler.py)  *)
(* and the Notification Consumer (src/lambda/notification_handler.py).     *)
(*                                                                         *)
(* The Booking Service is modelled as concurrent Lambda invocations that   *)
(* share the DynamoDB table (store) and the SQS queue (queue).  An         *)
(* invocation is atomic between two calls to an external service: the      *)
(* only points where another invocation can observe or change shared      *)
(* state are table.put_item, table.query/scan and sqs.send_message.        *)
(* The Notification Consumer is modelled one loop iteration per step.      *)
(***************************************************************************)
EXTENDS Integers, Sequences, FiniteSets, TLC

\* ------------------------------------------------------------------ bounds
\* Concurrent invocations of the Booking Service.
MaxInv == 2
\* Identifiers uuid.uuid4() can draw (each at most once).
NumUuids == 2
\* Longest batch handed to the Notification Consumer.
MaxBatch == 3

Uuids == 1..NumUuids

\* ---------------------------------------------------------- Python values
\* A Python value is a record tagged by its type; a key that a dict (the
\* Lambda event) does not hold is Missing.
Missing == [t |-> "missing"]
None == [t |-> "None"]
PyStr(s) == [t |-> "str", s |-> s]
PyInt(n) == [t |-> "int", n |-> n]
PyList(l) == [t |-> "list", l |-> l]
PyDict(d) == [t |-> "dict", d |-> d]
EmptyDict == [k \in {} |-> ""]

\* The outcome of running a piece of Python: a value, or a raised exception.
Ok(v) == [t |-> "ok", v |-> v]
Raise(type, msg) == [t |-> "raise", type |-> type, msg |-> msg]
IsRaise(o) == o.t = "raise"

\* --------------------------------------------------------------- json text
\* A text is either not JSON at all, or the JSON encoding of a value.
Garbage == [t |-> "text", k |-> "garbage"]
json_dumps(v) == [t |-> "text", k |-> "json", v |-> v]

\* json.loads(x): TypeError for a non-string argument (None), JSONDecodeError
\* for a text that is not JSON, otherwise the decoded value.
json_loads(x) ==
    IF x.t # "text"
    THEN Raise("TypeError", "the JSON object must be str, bytes or bytearray, not NoneType")
    ELSE IF x.k = "garbage"
    THEN Raise("JSONDecodeError", "Expecting value: line 1 column 1 (char 0)")
    ELSE Ok(x.v)

\* ------------------------------------------------------------ input domain
EventIds == {"event-123", "event-456"}
UserName == "John Doe"
UserEmail == "john@example.com"
\* datetime.utcnow().isoformat() results.
Times == {"2024-01-01T00:00:00", "2024-01-01T00:00:01"}

\* The same fields checked in another order.
required_fields_reversed == <<"user_email", "user_name", "event_id">>

\* The required fields in the order create_booking checks them.
required_fields == <<"event_id", "user_name", "user_email">>
FieldNames == {required_fields[k] : k \in 1..Len(required_fields)}

\* A JSON string that holds every field name as a substring.
AllFieldsStr == "event_id,user_name,user_email"

\* Python's `sub in s` for two strings, on the strings of the input domain.
StrContains(s, sub) == s = sub \/ (s = AllFieldsStr /\ sub \in FieldNames)

FieldValues(f) == IF f = "event_id" THEN EventIds
                  ELSE IF f = "user_name" THEN {UserName} ELSE {UserEmail}

\* JSON objects over the required fields: the two complete ones and one for
\* every proper subset of the fields.
FullDicts == {[event_id |-> e, user_name |-> UserName, user_email |-> UserEmail] : e \in EventIds}
PartialDicts == {[f \in K |-> CHOOSE v \in FieldValues(f) : TRUE] : K \in (SUBSET FieldNames) \ {FieldNames}}

\* JSON values that are not objects.
NonObjects == {None, PyInt(5), PyStr("hello"), PyStr(AllFieldsStr),
               PyList(<<>>), PyList(required_fields)}

\* Values of event['body'] in a POST request.
Bodies == {Missing, None, Garbage}
          \cup {json_dumps(v) : v \in NonObjects}
          \cup {json_dumps(PyDict(d)) : d \in FullDicts \cup PartialDicts}

\* Values of event['queryStringParameters'] in a GET request.
QueryParams == {Missing, None, PyDict(EmptyDict), PyDict([event_id |-> ""])}
               \cup {PyDict([event_id |-> e]) : e \in EventIds}

MkEvent(m, b, q) == [httpMethod |-> m, body |-> b, queryStringParameters |-> q]
PostEvents == {MkEvent(PyStr("POST"), b, Missing) : b \in Bodies}
GetEvents == {MkEvent(PyStr("GET"), Missing, q) : q \in QueryParams}
OtherEvents == {MkEvent(m, Missing, Missing) : m \in {PyStr("DELETE"), Missing}}
Events == PostEvents \cup GetEvents \cup OtherEvents

\* ------------------------------------------------------- response envelope
Headers == [content_type |-> "application/json", access_control_allow_origin |-> "*"]
\* The dict every return statement of booking_handler.py builds.  No value of
\* the model is a Decimal, so DecimalEncoder encodes as json.dumps does.
Response(code, body) == [statusCode |-> code, headers |-> Headers, body |-> json_dumps(body)]
Return(resp) == [t |-> "return", resp |-> resp]

\* --------------------------------------------------------- Python operators
\* type(c).__name__.
TypeName(c) == IF c.t = "None" THEN "NoneType" ELSE c.t

\* `f in c`: key membership for a dict, element membership for a list,
\* substring for a str, TypeError for None, int.
Contains(c, f) ==
    IF c.t = "dict" THEN Ok(f \in DOMAIN c.d)
    ELSE IF c.t = "list" THEN Ok(\E k \in 1..Len(c.l) : c.l[k] = f)
    ELSE IF c.t = "str" THEN Ok(StrContains(c.s, f))
    ELSE Raise("TypeError", "argument of type '" \o TypeName(c) \o "' is not iterable")

\* `c[f]` with a str key f.
GetItem(c, f) ==
    IF c.t = "dict"
    THEN IF f \in DOMAIN c.d THEN Ok(c.d[f]) ELSE Raise("KeyError", f)
    ELSE IF c.t = "list"
    THEN Raise("TypeError", "list indices must be integers or slices, not str")
    ELSE IF c.t = "str"
    THEN Raise("TypeError", "string indices must be integers, not 'str'")
    ELSE Raise("TypeError", "'" \o TypeName(c) \o "' object is not subscriptable")

\* ----------------------------------------------------------- create_booking
\* Lines 71-81: the body is read and decoded; KeyError and JSONDecodeError
\* are caught and answered with 400, any other exception propagates.
ParseBody(event) ==
    IF event.body = Missing
    THEN Return(Response(400, [error |-> "Invalid request body"]))
    ELSE LET r == json_loads(event.body) IN
         IF IsRaise(r) /\ r.type = "JSONDecodeError"
         THEN Return(Response(400, [error |-> "Invalid request body"]))
         ELSE r

\* Lines 84-94: the loop over required_fields from position k on; the first
\* field that is not in the body ends the call with 400.
RECURSIVE CheckFields(_, _)
CheckFields(body, k) ==
    IF k > Len(required_fields) THEN Ok(body)
    ELSE LET c == Contains(body, required_fields[k]) IN
         IF IsRaise(c) THEN c
         ELSE IF ~c.v
         THEN Return(Response(400, [error |-> "Missing required field: " \o required_fields[k]]))
         ELSE CheckFields(body, k + 1)

\* Lines 71-94: Ok(body) when the request passes validation.
Validate(event) ==
    LET p == ParseBody(event) IN
    IF p.t = "ok" THEN CheckFields(p.v, 1) ELSE p

\* An identifier built without the uuid.
BookingIdConstant(u) == "booking-"

\* Line 97.
BookingId(u) == "booking-" \o ToString(u)

\* Lines 100-107: the booking record, or the exception a subscript raises.
booking_item(body, booking_id, timestamp) ==
    LET e == GetItem(body, "event_id")
        n == GetItem(body, "user_name")
        m == GetItem(body, "user_email")
    IN  IF IsRaise(e) THEN e
        ELSE IF IsRaise(n) THEN n
        ELSE IF IsRaise(m) THEN m
        ELSE Ok([event_id |-> e.v, booking_id |-> booking_id, user_name |-> n.v,
                 user_email |-> m.v, booking_status |-> "confirmed",
                 created_at |-> timestamp])

\* A message stamped with a second reading of the clock.
notification_message_restamped(body, booking_id, timestamp) ==
    PyDict([booking_id |-> booking_id, event_id |-> body.d["event_id"],
     user_email |-> body.d["user_email"], user_name |-> body.d["user_name"],
     action |-> "booking_created",
     timestamp |-> CHOOSE t \in Times : t # timestamp])

\* Lines 114-121: built from the request body and the locals booking_id and
\* timestamp, which the record was built from as well.
notification_message(body, booking_id, timestamp) ==
    PyDict([booking_id |-> booking_id, event_id |-> body.d["event_id"],
     user_email |-> body.d["user_email"], user_name |-> body.d["user_name"],
     action |-> "booking_created", timestamp |-> timestamp])

\* ------------------------------------------------------- external services
\* The table's primary key: partition key event_id, sort key booking_id.
KeyOf(item) == <<item.event_id, item.booking_id>>

\* table.put_item(Item=item): an unconditional write that replaces the item
\* with the same primary key, if any.
put_item(st, item) == {r \in st : KeyOf(r) # KeyOf(item)} \cup {item}

\* A query that ignores its key condition.
query_unfiltered(st, event_id) == st

\* table.query(KeyConditionExpression='event_id = :event_id') and table.scan().
query(st, event_id) == {r \in st : r.event_id = event_id}
scan(st) == st

\* sqs.send_message(MessageBody=text).
send_message(q, text) == Append(q, text)

\* An identifier source that can repeat itself.
uuid4_repeating(used) == Uuids

\* uuid.uuid4(): the identifiers it can return, given those it has returned.
\* It never returns an identifier twice.
uuid4(used) == Uuids \ used

\* The exception a failing call to a service raises.
ClientError(op) == Raise("ClientError", "An error occurred when calling the " \o op \o " operation")

\* ----------------------------------------------------------- lambda_handler
\* Line 34.
http_method(event) == IF event.httpMethod = Missing THEN "" ELSE event.httpMethod.s

\* A handler whose except clause lets the services' ClientError through.
lambda_handler_result_narrow(o) ==
    IF IsRaise(o)
    THEN IF o.type = "ClientError" THEN o
         ELSE Response(500, [error |-> "Internal server error", message |-> o.msg])
    ELSE o.resp

\* Lines 36-59: what lambda_handler returns for the outcome of the branch it
\* dispatched to: the branch's response, or 500 for any exception it raised.
lambda_handler_result(o) ==
    IF IsRaise(o)
    THEN Response(500, [error |-> "Internal server error", message |-> o.msg])
    ELSE o.resp

\* ------------------------------------------------------------ get_bookings
\* Line 147: event.get('queryStringParameters', {}) or {}.
query_params(event) ==
    LET q == event.queryStringParameters IN
    IF q = Missing \/ q = None \/ q = PyDict(EmptyDict) THEN PyDict(EmptyDict) ELSE q

\* Line 148: query_params.get('event_id').
filter_event_id(event) ==
    LET d == query_params(event).d IN
    IF "event_id" \in DOMAIN d THEN PyStr(d["event_id"]) ELSE None

\* Python's truth value of None or a str.
Truthy(v) == v.t = "str" /\ v.s # ""

\* Lines 150-176 once the table has answered: bookings are the items read.
get_bookings(event, st) ==
    LET event_id == filter_event_id(event) IN
    IF Truthy(event_id)
    THEN LET bookings == query(st, event_id.s) IN
         Return(Response(200,
            [message |-> "Found " \o ToString(Cardinality(bookings))
                         \o " booking(s) for event " \o event_id.s,
             bookings |-> bookings]))
    ELSE LET bookings == scan(st) IN
         Return(Response(200,
            [message |-> "Found " \o ToString(Cardinality(bookings)) \o " total booking(s)",
             bookings |-> bookings]))

\* The table operation get_bookings calls for the event.
ReadOp(event) == IF Truthy(filter_event_id(event)) THEN "Query" ELSE "Scan"

\* -------------------------------------------------------------------- state
VARIABLES
    store,            \* the DynamoDB table: a set of booking records
    queue,            \* the SQS queue: the message bodies sent, in order
    drawn,            \* the identifiers uuid4 has returned
    inflight,         \* the create_booking calls between put_item and send_message
    last,             \* the invocation of the Booking Service that is returning, if any
    n201,             \* how many invocations have returned 201
    returned,         \* the booking_id values returned with 201
    batch,            \* Notification Consumer: event['Records']
    idx,              \* Notification Consumer: the record the loop is at
    processed_count,
    failed_count,
    printed,          \* Notification Consumer: the notification logs printed, in order
    handled,          \* Notification Consumer: the records the loop body has run for, in order
    cpc,              \* Notification Consumer: "idle", "loop" or "done"
    cresult           \* Notification Consumer: what lambda_handler returned

bookingVars == <<store, queue, drawn, inflight, last, n201, returned>>
consumerVars == <<batch, idx, processed_count, failed_count, printed, handled, cpc, cresult>>
vars == <<store, queue, drawn, inflight, last, n201, returned,
          batch, idx, processed_count, failed_count, printed, handled, cpc, cresult>>

NoCall == [t |-> "none"]

\* The record of an invocation that has returned: what lambda_handler gave
\* back for the branch's outcome o, the booking record the call built (or
\* Missing), the put_item and send_message calls that succeeded in it, and the
\* service call that raised in it ("none" if none did).
Call(event, o, item, puts, sends, fault) ==
    [t |-> "call", event |-> event, result |-> lambda_handler_result(o),
     item |-> item, puts |-> puts, sends |-> sends, fault |-> fault]

Init ==
    /\ store = {}
    /\ queue = <<>>
    /\ drawn = {}
    /\ inflight = {}
    /\ last = NoCall
    /\ n201 = 0
    /\ returned = {}
    /\ batch = <<>>
    /\ idx = 0
    /\ processed_count = 0
    /\ failed_count = 0
    /\ printed = <<>>
    /\ handled = <<>>
    /\ cpc = "idle"
    /\ cresult = NoCall

\* ------------------------------------------ Booking Service: lambda_handler
\* POST, lines 62-94: create_booking ends before it builds a record, with a
\* 400 response or with an exception that lambda_handler turns into 500.
PostRejected(event) ==
    /\ last = NoCall
    /\ http_method(event) = "POST"
    /\ Validate(event).t # "ok"
    /\ last' = Call(event, Validate(event), Missing, 0, 0, "none")
    /\ UNCHANGED <<store, queue, drawn, inflight, n201, returned>>
    /\ UNCHANGED consumerVars

\* POST, lines 62-107: the body passes validation but is no dict, and the
\* subscript body['event_id'] raises after uuid4 has been called.
PostItemFails(event, u) ==
    /\ last = NoCall
    /\ http_method(event) = "POST"
    /\ Validate(event).t = "ok"
    /\ u \in uuid4(drawn)
    /\ \E ts \in Times :
         LET it == booking_item(Validate(event).v, BookingId(u), ts) IN
         /\ IsRaise(it)
         /\ last' = Call(event, it, Missing, 0, 0, "none")
    /\ drawn' = drawn \cup {u}
    /\ UNCHANGED <<store, queue, inflight, n201, returned>>
    /\ UNCHANGED consumerVars

\* POST, lines 62-111: the record is built and table.put_item stores it.
PostPut(event, u, ts) ==
    /\ last = NoCall
    /\ Cardinality(inflight) < MaxInv
    /\ http_method(event) = "POST"
    /\ Validate(event).t = "ok"
    /\ u \in uuid4(drawn)
    /\ LET body == Validate(event).v
           it == booking_item(body, BookingId(u), ts)
       IN  /\ ~IsRaise(it)
           /\ store' = put_item(store, it.v)
           /\ inflight' = inflight \cup
                  {[event |-> event, body |-> body, booking_id |-> BookingId(u),
                    timestamp |-> ts, booking_item |-> it.v]}
    /\ drawn' = drawn \cup {u}
    /\ UNCHANGED <<queue, last, n201, returned>>
    /\ UNCHANGED consumerVars

\* POST, lines 62-110 and 50-59: table.put_item raises.
PostPutFails(event, u) ==
    /\ last = NoCall
    /\ http_method(event) = "POST"
    /\ Validate(event).t = "ok"
    /\ u \in uuid4(drawn)
    /\ \E ts \in Times :
         LET it == booking_item(Validate(event).v, BookingId(u), ts) IN
         /\ ~IsRaise(it)
         /\ last' = Call(event, ClientError("PutItem"), Missing, 0, 0, "put_item")
    /\ drawn' = drawn \cup {u}
    /\ UNCHANGED <<store, queue, inflight, n201, returned>>
    /\ UNCHANGED consumerVars

\* POST, lines 113-139: sqs.send_message publishes the notification and
\* create_booking returns 201 with the record.
SendOk(c) ==
    /\ last = NoCall
    /\ c \in inflight
    /\ queue' = send_message(queue,
              json_dumps(notification_message(c.body, c.booking_id, c.timestamp)))
       /\ last' = Call(c.event,
              Return(Response(201, [message |-> "Booking created successfully",
                                    booking |-> c.booking_item])),
              c.booking_item, 1, 1, "none")
       /\ returned' = returned \cup {c.booking_item.booking_id}
    /\ n201' = n201 + 1
    /\ inflight' = inflight \ {c}
    /\ UNCHANGED <<store, drawn>>
    /\ UNCHANGED consumerVars

\* The same step with a compensating delete of the record.
SendFailsRollback(c) ==
    /\ last = NoCall
    /\ c \in inflight
    /\ last' = Call(c.event, ClientError("SendMessage"), c.booking_item, 1, 0, "send_message")
    /\ store' = store \ {c.booking_item}
    /\ inflight' = inflight \ {c}
    /\ UNCHANGED <<queue, drawn, n201, returned>>
    /\ UNCHANGED consumerVars

\* The same step with the exception swallowed: 201 without a message.
SendFailsSwallowed(c) ==
    /\ last = NoCall
    /\ c \in inflight
    /\ last' = Call(c.event,
           Return(Response(201, [message |-> "Booking created successfully",
                                 booking |-> c.booking_item])),
           c.booking_item, 1, 0, "send_message")
    /\ returned' = returned \cup {c.booking_item.booking_id}
    /\ n201' = n201 + 1
    /\ inflight' = inflight \ {c}
    /\ UNCHANGED <<store, queue, drawn>>
    /\ UNCHANGED consumerVars

\* POST, lines 113-126 and 50-59: sqs.send_message raises; the exception
\* leaves create_booking and lambda_handler answers 500.
SendFails(c) ==
    /\ last = NoCall
    /\ c \in inflight
    /\ last' = Call(c.event, ClientError("SendMessage"), c.booking_item, 1, 0, "send_message")
    /\ inflight' = inflight \ {c}
    /\ UNCHANGED <<store, queue, drawn, n201, returned>>
    /\ UNCHANGED consumerVars

\* GET, lines 142-176: the table answers the query or the scan.
Get(event) ==
    /\ last = NoCall
    /\ http_method(event) = "GET"
    /\ last' = Call(event, get_bookings(event, store), Missing, 0, 0, "none")
    /\ UNCHANGED <<store, queue, drawn, inflight, n201, returned>>
    /\ UNCHANGED consumerVars

\* GET, lines 142-162 and 50-59: table.query or table.scan raises.
GetFails(event) ==
    /\ last = NoCall
    /\ http_method(event) = "GET"
    /\ last' = Call(event, ClientError(ReadOp(event)), Missing, 0, 0, "read")
    /\ UNCHANGED <<store, queue, drawn, inflight, n201, returned>>
    /\ UNCHANGED consumerVars

\* Lines 41-49: any other method.
MethodNotAllowed(event) ==
    /\ last = NoCall
    /\ http_method(event) \notin {"POST", "GET"}
    /\ last' = Call(event, Return(Response(405, [error |-> "Method not allowed"])),
                    Missing, 0, 0, "none")
    /\ UNCHANGED <<store, queue, drawn, inflight, n201, returned>>
    /\ UNCHANGED consumerVars

\* The runtime hands the response of the returning invocation to its caller.
\* last holds one invocation at a time: the steps of other invocations wait
\* for it, which leaves out no state of the table and the queue.
Deliver ==
    /\ last # NoCall
    /\ last' = NoCall
    /\ UNCHANGED <<store, queue, drawn, inflight, n201, returned>>
    /\ UNCHANGED consumerVars

Next ==
    \/ \E event \in Events : PostRejected(event)
    \/ \E event \in Events, u \in Uuids : PostItemFails(event, u)
    \/ \E event \in Events, u \in Uuids, ts \in Times : PostPut(event, u, ts)
    \/ \E event \in Events, u \in Uuids : PostPutFails(event, u)
    \/ \E c \in inflight : SendOk(c)
    \/ \E c \in inflight : SendFails(c)
    \/ \E event \in Events : Get(event)
    \/ \E event \in Events : GetFails(event)
    \/ \E event \in Events : MethodNotAllowed(event)
    \/ Deliver

Spec == Init /\ [][Next]_vars

\* ------------------------------------------------- Notification Consumer
\* d.get(k, default) on a dict of strings.
DictGet(d, k, default) == IF k \in DOMAIN d THEN PyStr(d[k]) ELSE default

\* How an f-string renders None or a str.
Format(v) == IF v = None THEN "None" ELSE v.s

\* Lines 41-77: message.get raises AttributeError unless message is a dict;
\* now is what datetime.utcnow().isoformat() gives during the call.
process_notification(message, now) ==
    IF message.t # "dict"
    THEN Raise("AttributeError", "'" \o TypeName(message) \o "' object has no attribute 'get'")
    ELSE LET booking_id == DictGet(message.d, "booking_id", None)
             user_email == DictGet(message.d, "user_email", None)
             user_name == DictGet(message.d, "user_name", None)
             event_id == DictGet(message.d, "event_id", None)
             action == DictGet(message.d, "action", PyStr("unknown"))
             timestamp == DictGet(message.d, "timestamp", PyStr(now))
         IN  Ok([type |-> "email_notification",
                 action |-> action,
                 recipient |-> user_email,
                 subject |-> "Event Booking Confirmation - " \o Format(event_id),
                 message |-> "Hello " \o Format(user_name) \o ", your booking "
                             \o Format(booking_id) \o " has been confirmed!",
                 timestamp |-> timestamp])

\* Lines 23-24, the body of the try block for one record.
RecordOutcome(record, now) ==
    IF record.body = Missing THEN Raise("KeyError", "body")
    ELSE LET r == json_loads(record.body) IN
         IF IsRaise(r) THEN r ELSE process_notification(r.v, now)

\* The records a batch is made of: notifications as create_booking sends
\* them, an object without any field, and bodies that cannot be processed.
GoodRecords == {[body |-> json_dumps(notification_message(
                              PyDict([event_id |-> "event-123", user_name |-> UserName,
                                      user_email |-> UserEmail]),
                              BookingId(1), "2024-01-01T00:00:00"))],
                [body |-> json_dumps(PyDict(EmptyDict))]}
BadRecords == {[body |-> Garbage], [body |-> Missing], [body |-> None],
               [body |-> json_dumps(PyList(<<>>))]}
Records == GoodRecords \cup BadRecords
Batches == UNION {[1..n -> Records] : n \in 0..MaxBatch}

\* Lines 15-18: an invocation starts on event['Records'] = b.
NotifyStart(b) ==
    /\ cpc \in {"idle", "done"}
    /\ batch' = b
    /\ idx' = 1
    /\ processed_count' = 0
    /\ failed_count' = 0
    /\ printed' = <<>>
    /\ handled' = <<>>
    /\ cresult' = NoCall
    /\ cpc' = "loop"
    /\ UNCHANGED bookingVars

\* Lines 21-25: one iteration whose try block completes.
NotifyRecordOk ==
    /\ cpc = "loop"
    /\ idx <= Len(batch)
    /\ \E now \in Times :
         LET o == RecordOutcome(batch[idx], now) IN
         /\ ~IsRaise(o)
         /\ printed' = Append(printed, o.v)
    /\ processed_count' = processed_count + 1
    /\ handled' = Append(handled, idx)
    /\ idx' = idx + 1
    /\ UNCHANGED <<batch, failed_count, cpc, cresult>>
    /\ UNCHANGED bookingVars

\* The same iteration leaving the loop at the first exception.
NotifyRecordFailsBreak ==
    /\ cpc = "loop"
    /\ idx <= Len(batch)
    /\ \A now \in Times : IsRaise(RecordOutcome(batch[idx], now))
    /\ failed_count' = failed_count + 1
    /\ handled' = Append(handled, idx)
    /\ idx' = Len(batch) + 1
    /\ UNCHANGED <<batch, processed_count, printed, cpc, cresult>>
    /\ UNCHANGED bookingVars

\* Lines 21-28: one iteration whose try block raises; the exception is
\* caught and the loop goes on with the next record.
NotifyRecordFails ==
    /\ cpc = "loop"
    /\ idx <= Len(batch)
    /\ \A now \in Times : IsRaise(RecordOutcome(batch[idx], now))
    /\ failed_count' = failed_count + 1
    /\ handled' = Append(handled, idx)
    /\ idx' = idx + 1
    /\ UNCHANGED <<batch, processed_count, printed, cpc, cresult>>
    /\ UNCHANGED bookingVars

\* Lines 30-38: the loop is over and the counts are returned.
NotifyReturn ==
    /\ cpc = "loop"
    /\ idx > Len(batch)
    /\ cresult' = [statusCode |-> 200,
                   body |-> json_dumps([processed |-> processed_count, failed |-> failed_count])]
    /\ cpc' = "done"
    /\ UNCHANGED <<batch, idx, processed_count, failed_count, printed, handled>>
    /\ UNCHANGED bookingVars

NextConsumer ==
    \/ \E b \in Batches : NotifyStart(b)
    \/ NotifyRecordOk
    \/ NotifyRecordFails
    \/ NotifyReturn

SpecConsumer == Init /\ [][NextConsumer]_vars

\* ================================================================== claims
IsResponse(r) == "statusCode" \in DOMAIN r
\* The status code of the returning invocation; -1 when lambda_handler let an
\* exception through instead of returning a response.
Status == IF last.t = "call" /\ IsResponse(last.result) THEN last.result.statusCode ELSE -1
Returning == last.t = "call"
Method == IF Returning THEN http_method(last.event) ELSE "-"
\* The decoded JSON body of the response.
ResponseBody == last.result.body.v

\* C1: when sqs.send_message fails after table.put_item succeeded, the call
\* answers 500, the booking record is in the store (no rollback), and no
\* message for it is in the queue.
C1_PublishFailureKeepsBooking ==
    (Returning /\ last.fault = "send_message") =>
        /\ Status = 500
        /\ last.puts = 1 /\ last.sends = 0
        /\ last.item \in store
        /\ \A k \in 1..Len(queue) : json_loads(queue[k]).v.d.booking_id # last.item.booking_id

C1_Witness ==
    /\ Returning /\ last.fault = "send_message"
    /\ Status = 500
    /\ last.item \in store

\* C3 (as claimed): every POST whose body is missing, null, not JSON, or JSON
\* that is not an object is answered 400 with an error, never 500, and writes
\* neither the store nor the queue.
InvalidBody(event) ==
    \/ event.body \in {Missing, None, Garbage}
    \/ event.body.t = "text" /\ event.body.k = "json" /\ event.body.v.t # "dict"

C3_InvalidBodyIs400 ==
    (Returning /\ Method = "POST" /\ InvalidBody(last.event)) =>
        /\ Status = 400
        /\ "error" \in DOMAIN ResponseBody
        /\ last.puts = 0 /\ last.sends = 0

\* C4: a POST whose body is an object lacking a required field is answered
\* 400 naming exactly the first missing field in the order event_id,
\* user_name, user_email, and writes neither the store nor the queue.
LacksField(event) ==
    /\ event.body.t = "text" /\ event.body.k = "json" /\ event.body.v.t = "dict"
    /\ \E f \in {"event_id", "user_name", "user_email"} : f \notin DOMAIN event.body.v.d

FirstMissing(d) ==
    IF "event_id" \notin DOMAIN d THEN "event_id"
    ELSE IF "user_name" \notin DOMAIN d THEN "user_name"
    ELSE "user_email"

C4_FirstMissingField ==
    (Returning /\ Method = "POST" /\ LacksField(last.event)) =>
        /\ Status = 400
        /\ ResponseBody = [error |-> "Missing required field: " \o FirstMissing(last.event.body.v.d)]
        /\ last.puts = 0 /\ last.sends = 0 /\ last.item = Missing

C4_Witness ==
    /\ Returning /\ Method = "POST" /\ LacksField(last.event)
    /\ DOMAIN last.event.body.v.d = {"event_id"}
    /\ ResponseBody = [error |-> "Missing required field: user_name"]
    /\ store # {}

\* C5: a step never removes or changes a record of the store; when the store
\* changes, exactly one record is added, under a booking_id no stored record
\* has.
C5_RecordsNeverChange ==
    [][ /\ \A r \in store : r \in store'
        /\ store' # store =>
              \E r \in store' \ store :
                 /\ store' = store \cup {r}
                 /\ \A q \in store : q.booking_id # r.booking_id ]_vars

C5_Witness ==
    /\ Cardinality(store) = 2
    /\ \E r, q \in store : r # q /\ r.event_id = q.event_id
    /\ Returning /\ last.fault = "send_message"
    /\ Len(queue) = 1

\* C6: 201 means one put_item and one send_message in the call, with one
\* message for its booking queued; 400, 405 and GET mean none of either; the messages published are as many as the 201 responses.
MessagesFor(id) == {k \in 1..Len(queue) : json_loads(queue[k]).v.d.booking_id = id}

C6_SideEffectsFollowOutcome ==
    /\ Len(queue) = n201
    /\ (Returning /\ Status = 201) =>
          /\ last.puts = 1 /\ last.sends = 1
          /\ Cardinality(MessagesFor(last.item.booking_id)) = 1
    /\ (Returning /\ (Status \in {400, 405} \/ Method = "GET")) =>
          /\ last.puts = 0 /\ last.sends = 0

C6_Witness ==
    /\ Returning /\ Status = 201
    /\ n201 = 2
    /\ Len(queue) = 2

\* C7: the booking_id values returned with 201 are pairwise distinct, each
\* names its own record of the store, and a returned booking is confirmed; so
\* two creates with the same input leave two records.
C7_DistinctBookings ==
    /\ Cardinality(returned) = n201
    /\ \A id \in returned : Cardinality({r \in store : r.booking_id = id}) = 1
    /\ (Returning /\ Status = 201) =>
          /\ ResponseBody.booking.booking_status = "confirmed"
          /\ ResponseBody.booking.booking_id \in returned
          /\ ResponseBody.booking \in store

C7_Witness ==
    /\ n201 = 2
    /\ \E r, q \in store :
          /\ r.booking_id # q.booking_id
          /\ {r.booking_id, q.booking_id} \subseteq returned
          /\ r.event_id = q.event_id /\ r.user_name = q.user_name
          /\ r.user_email = q.user_email /\ r.created_at = q.created_at

\* C8: the event_id query parameter of the returning GET, or "-" if the
\* request supplies none.
Supplied ==
    LET q == last.event.queryStringParameters IN
    IF q.t = "dict" /\ "event_id" \in DOMAIN q.d THEN q.d["event_id"] ELSE "-"

Listed(bookings, message) ==
    ResponseBody = [message |-> message, bookings |-> bookings]

\* C8 (as claimed): a list call returns exactly the stored records whose
\* event_id equals the filter whenever the event_id query parameter is
\* supplied.
C8_FilterWheneverSupplied ==
    (Returning /\ Method = "GET" /\ Status = 200 /\ Supplied # "-") =>
        ResponseBody.bookings = {r \in store : r.event_id = Supplied}

\* C8 (amended): with a non-empty event_id parameter a list call returns
\* exactly the stored records of that event, with their count; with no
\* event_id parameter, or an empty one, it returns every stored record.
C8_FilterWhenNonEmpty ==
    (Returning /\ Method = "GET" /\ Status = 200) =>
        IF Supplied \notin {"-", ""}
        THEN LET m == {r \in store : r.event_id = Supplied} IN
             Listed(m, "Found " \o ToString(Cardinality(m)) \o " booking(s) for event " \o Supplied)
        ELSE Listed(store, "Found " \o ToString(Cardinality(store)) \o " total booking(s)")

C8_Witness ==
    /\ Returning /\ Method = "GET" /\ Status = 200
    /\ Supplied = "event-123"
    /\ \E r \in store : r.event_id = "event-456"
    /\ Cardinality(ResponseBody.bookings) = 1
    /\ \A r \in ResponseBody.bookings : r.event_id = "event-123"

\* C9: every invocation returns a response whose status is 200, 201, 400,
\* 405 or 500; a failure of the store or the queue gives 500 carrying the
\* exception's message; a method other than POST and GET gives 405.
C9_AlwaysAResponse ==
    Returning =>
        /\ IsResponse(last.result)
        /\ Status \in {200, 201, 400, 405, 500}
        /\ last.fault # "none" =>
              /\ Status = 500
              /\ \E op \in {"PutItem", "SendMessage", "Query", "Scan"} :
                    ResponseBody = [error |-> "Internal server error",
                                    message |-> ClientError(op).msg]
        /\ Method \notin {"POST", "GET"} =>
              /\ Status = 405
              /\ ResponseBody = [error |-> "Method not allowed"]

C9_Witness ==
    /\ Returning /\ last.fault = "read"
    /\ Status = 500
    /\ store # {}

\* C10: every message in the queue describes a record that is in the store:
\* same booking_id, event_id, user_name and user_email, timestamp equal to
\* created_at, action booking_created.
C10_WriteBeforePublish ==
    \A k \in 1..Len(queue) :
        LET m == json_loads(queue[k]).v.d IN
        /\ m.action = "booking_created"
        /\ \E r \in store :
              /\ r.booking_id = m.booking_id
              /\ r.event_id = m.event_id
              /\ r.user_name = m.user_name
              /\ r.user_email = m.user_email
              /\ r.created_at = m.timestamp

\* A message is queued while another booking is stored, with no create in
\* progress, and has no message: the converse fails.
C10_Witness ==
    /\ Len(queue) = 1
    /\ inflight = {}
    /\ \E r \in store : MessagesFor(r.booking_id) = {}

\* C2: the loop runs its body for the records 1, 2, ... in order, once each;
\* a record that cannot be processed adds one to failed_count only, a record
\* that can adds one to processed_count and its notification to the log; so
\* at the return the counts are those of the two kinds of record and add up
\* to the length of the batch.
Processable(record) ==
    /\ record.body.t = "text" /\ record.body.k = "json"
    /\ record.body.v.t = "dict"

Count(P(_), n) == Cardinality({k \in 1..n : P(batch[k])})
Unprocessable(record) == ~Processable(record)

C2_BatchIsolation ==
    /\ cpc \in {"loop", "done"} =>
          /\ idx \in 1..(Len(batch) + 1)
          /\ handled = [k \in 1..(idx - 1) |-> k]
          /\ processed_count = Count(Processable, idx - 1)
          /\ failed_count = Count(Unprocessable, idx - 1)
          /\ Len(printed) = processed_count
    /\ cpc = "done" =>
          /\ idx = Len(batch) + 1
          /\ processed_count + failed_count = Len(batch)
          /\ cresult = [statusCode |-> 200,
                        body |-> json_dumps([processed |-> processed_count,
                                             failed |-> failed_count])]

C2_Witness ==
    /\ cpc = "done"
    /\ Len(batch) = 2
    /\ Unprocessable(batch[1]) /\ Processable(batch[2])
    /\ cresult.body.v = [processed |-> 1, failed |-> 1]

====
